---- MODULE Spec2Model ----
(***************************************************************************)
(* Incident lifecycle and alert escalation of the campus safety dashboard  *)
(* (src/app.py): the session state, the RealTimeDetector frame callback,   *)
(* the script runs of main() and the operator handlers.                    *)
(***************************************************************************)
EXTENDS Integers, Sequences, FiniteSets, TLC

\* ---------------------------------------------------------------- bounds
MaxIncidents == 2      \* incidents in the store before the operator's presses stop creating
MaxWork == 4           \* incidents in the store plus handler calls made
MaxSessions == 2       \* RealTimeDetector instances created

\* ------------------------------------------------------ program constants
FrameCap == 100        \* recv: frame_counter < 100
ScoreCap == 100        \* recv: min(100, frame_counter)
LiveThreshold == 90    \* recv: violence_score >= 90
LiveScore == 95        \* main: score=95
ImageLow == 70         \* random.randint(70, 100)
ImageHigh == 100
ImageThreshold == 80   \* simulated_violence_score >= 80
VideoLow == 85         \* random.randint(85, 99)
VideoHigh == 99
VideoThreshold == 85   \* simulated_violence_score >= 85
WellnessDefault == 2   \* 'wellness_required': 2

NoId == "None"                        \* active_incident_id = None
IdSpace == {"3f2a9c1e", "b7d04e6a"}   \* values of str(uuid4())[:8]
NoDetector == [violence_score |-> -1, frame_counter |-> -1, detection_triggered |-> FALSE]

status_options == <<"New", "Investigating", "Resolved", "Closed">>
Statuses == {status_options[i] : i \in 1..Len(status_options)}

Min(a, b) == IF a <= b THEN a ELSE b

\* draws of random.randint(70, 100): the two sides of the threshold
ImageScores == {s \in ImageLow..ImageHigh :
                   s \in {ImageThreshold - 1, ImageThreshold}}
\* draws of random.randint(85, 99): the bottom, which is the threshold
VideoScores == {s \in VideoLow..VideoHigh : s = VideoThreshold}

VARIABLES
    incidents,                      \* st.session_state.incidents
    active_incident_id,             \* st.session_state.active_incident_id
    violation_detected,             \* st.session_state.violation_detected
    email_sent_for_last_detection,  \* st.session_state.email_sent_for_last_detection
    video_processor,                \* webrtc_ctx.video_processor (a RealTimeDetector or none)
    sessions,                       \* RealTimeDetector instances created so far
    uploaded_file,                  \* file_uploader value: "none", "image", "video"
    image_score,                    \* score shown by the last image analysis (0: none)
    log_button,                     \* "Log Incident and Send Alert" is on the page
    sorted_incidents,               \* positions of the incidents as the list panel last showed them
    now,                            \* datetime.now(), one tick per script run that creates
    pc,                             \* position of the script thread in main's live block
    ops,                            \* handle_update and send_notification_action calls so far
    last                            \* the operation that ran last and its argument

vars == <<incidents, active_incident_id, violation_detected,
          email_sent_for_last_detection, video_processor, sessions,
          uploaded_file, image_score, log_button, sorted_incidents, now, pc, ops, last>>

\* ------------------------------------------------------------ pure helpers

\* generate_incident, with the uuid prefix and the clock reading as inputs
generate_incident(incident_type, location, score, id, t) ==
    [id |-> id,
     type |-> incident_type,
     location |-> location,
     status |-> "New",
     timestamp |-> t,
     deescalation_score |-> score,
     notifications_sent |-> 0,
     wellness_required |-> WellnessDefault,
     description |-> <<incident_type, location, score>>,
     notification_log |-> <<>>]

\* variant: the log entry is appended inside the try block, after the send
send_alert_email_OnlyOnSuccess(incident_details, t, ok) ==
    IF ok
    THEN [incident_details EXCEPT
            !.notification_log = Append(@, [time |-> t, recipient |-> "Email Alert System"])]
    ELSE incident_details

\* variant: the dispatcher counts its own entry as a notification
send_alert_email_Counted(incident_details, t, ok) ==
    [incident_details EXCEPT
        !.notifications_sent = @ + 1,
        !.notification_log = Append(@, [time |-> t, recipient |-> "Email Alert System"])]

\* send_alert_email; ok: the try block ran through (st.success), otherwise the
\* except branch caught the error (st.error). The log entry is appended after
\* the try/except, whatever it did, and the function returns normally.
send_alert_email(incident_details, t, ok) ==
    [incident_details EXCEPT
        !.notification_log = Append(@, [time |-> t, recipient |-> "Email Alert System"])]

\* the first position whose incident has the id, 0 when the loop finds none
FindIncident(incs, incident_id) ==
    IF \E i \in 1..Len(incs) : incs[i].id = incident_id
    THEN CHOOSE i \in 1..Len(incs) :
            /\ incs[i].id = incident_id
            /\ \A j \in 1..(i - 1) : incs[j].id # incident_id
    ELSE 0

\* key=lambda x: (x['status'] != 'New', x['timestamp'])
SortKey(x) == <<IF x.status # "New" THEN 1 ELSE 0, x.timestamp>>

KeyLess(k1, k2) == k1[1] < k2[1] \/ (k1[1] = k2[1] /\ k1[2] < k2[2])

\* sorted(..., reverse=True): descending by key, equal keys keep their store order
RECURSIVE SortedPositions(_, _)
SortedPositions(incs, n) ==
    IF n = 0 THEN <<>>
    ELSE LET prev == SortedPositions(incs, n - 1)
             k == SortKey(incs[n])
             cut == Cardinality({p \in 1..Len(prev) : ~KeyLess(SortKey(incs[prev[p]]), k)})
         IN  SubSeq(prev, 1, cut) \o <<n>> \o SubSeq(prev, cut + 1, Len(prev))

incident_list_order(incs) == SortedPositions(incs, Len(incs))

\* ------------------------------------------------------- RealTimeDetector

\* RealTimeDetector.__init__
NewDetector == [violence_score |-> 0, frame_counter |-> 0, detection_triggered |-> FALSE]

\* variant: the threshold test is a strict comparison
recv_Strict(d) ==
    LET score == IF d.frame_counter < FrameCap
                 THEN Min(ScoreCap, d.frame_counter) ELSE d.violence_score
        counter == IF d.frame_counter < FrameCap
                   THEN d.frame_counter + 1 ELSE d.frame_counter
    IN  [violence_score |-> score,
         frame_counter |-> counter,
         detection_triggered |->
            IF score > LiveThreshold /\ ~d.detection_triggered
            THEN TRUE ELSE d.detection_triggered]

\* recv, the detector's own fields: the ramp, then the threshold test
recv(d) ==
    LET score == IF d.frame_counter < FrameCap
                 THEN Min(ScoreCap, d.frame_counter) ELSE d.violence_score
        counter == IF d.frame_counter < FrameCap
                   THEN d.frame_counter + 1 ELSE d.frame_counter
    IN  [violence_score |-> score,
         frame_counter |-> counter,
         detection_triggered |->
            IF score >= LiveThreshold /\ ~d.detection_triggered
            THEN TRUE ELSE d.detection_triggered]

\* variant: the session flag is tested after detection_triggered has been set
RaisesFlag_AfterTrigger(d) ==
    recv(d).violence_score >= LiveThreshold /\ ~recv(d).detection_triggered

\* recv, the branch that raises the session flag (lines 113-116)
RaisesFlag(d) == recv(d).violence_score >= LiveThreshold /\ ~d.detection_triggered

\* ------------------------------------------------------- operator handlers

\* variant: the assignment sits after the loop, where the loop variable still
\* names the last incident of the store
handle_update_AfterLoop(incs, incident_id, value) ==
    LET i == FindIncident(incs, incident_id)
    IN  IF i # 0 THEN [incs EXCEPT ![i].status = value]
        ELSE IF Len(incs) = 0 THEN incs
        ELSE [incs EXCEPT ![Len(incs)].status = value]

\* variant: every status update is also counted as a notification
handle_update_Counted(incs, incident_id, value) ==
    LET i == FindIncident(incs, incident_id)
    IN  IF i = 0 THEN incs
        ELSE [incs EXCEPT ![i].status = value,
                          ![i].notifications_sent = @ + 1]

\* variant: a status only moves forward in status_options
handle_update_Forward(incs, incident_id, value) ==
    LET i == FindIncident(incs, incident_id)
        At(v) == CHOOSE k \in 1..Len(status_options) : status_options[k] = v
    IN  IF i = 0 \/ At(value) < At(incs[i].status) THEN incs
        ELSE [incs EXCEPT ![i].status = value]

\* handle_update with key 'status': the loop over the store
handle_update(incs, incident_id, value) ==
    LET i == FindIncident(incs, incident_id)
    IN  IF i = 0 THEN incs ELSE [incs EXCEPT ![i].status = value]

\* variant: the recipient is chosen before the counter is incremented
send_notification_action_Stale(incs, incident_id, t) ==
    LET i == FindIncident(incs, incident_id)
    IN  IF i = 0 THEN incs
        ELSE LET recipient == IF incs[i].notifications_sent = 1
                              THEN "Admin/Security" ELSE "Parents/Counselors"
             IN  [incs EXCEPT
                    ![i].notifications_sent = @ + 1,
                    ![i].notification_log = Append(@, [time |-> t, recipient |-> recipient])]

\* variant: a notification also moves a New incident to Investigating
send_notification_action_Escalates(incs, incident_id, t) ==
    LET i == FindIncident(incs, incident_id)
    IN  IF i = 0 THEN incs
        ELSE LET sent == incs[i].notifications_sent + 1
                 recipient == IF sent = 1 THEN "Admin/Security" ELSE "Parents/Counselors"
             IN  [incs EXCEPT
                    ![i].status = IF @ = "New" THEN "Investigating" ELSE @,
                    ![i].notifications_sent = sent,
                    ![i].notification_log = Append(@, [time |-> t, recipient |-> recipient])]

\* send_notification_action: the loop over the store
send_notification_action(incs, incident_id, t) ==
    LET i == FindIncident(incs, incident_id)
    IN  IF i = 0 THEN incs
        ELSE LET sent == incs[i].notifications_sent + 1
                 recipient == IF sent = 1 THEN "Admin/Security" ELSE "Parents/Counselors"
             IN  [incs EXCEPT
                    ![i].notifications_sent = sent,
                    ![i].notification_log = Append(@, [time |-> t, recipient |-> recipient])]

\* the incident a creation path appends: generate_incident, append, send_alert_email
Created(incident_type, location, score, id, t, ok) ==
    send_alert_email(generate_incident(incident_type, location, score, id, t), t, ok)

\* the record kept of the last script-thread operation
Other == [op |-> "other", id |-> NoId, value |-> "None", repeat |-> FALSE]

\* the record of a creation: the banner send_alert_email put on the page
Dispatched(id, ok) ==
    [op |-> "send_alert_email", id |-> id,
     value |-> IF ok THEN "st.success" ELSE "st.error", repeat |-> FALSE]

\* variant: line 409 without the latch
LivePending_NoLatch == violation_detected

\* main line 409: the live trigger is waiting for this run
LivePending == violation_detected /\ ~email_sent_for_last_detection

\* ------------------------------------------------------------------ states

\* session state as initialize_state leaves it, no camera stream yet
InitLive ==
    /\ incidents = <<>>
    /\ active_incident_id = NoId
    /\ violation_detected = FALSE
    /\ email_sent_for_last_detection = FALSE
    /\ video_processor = NoDetector
    /\ sessions = 0
    /\ uploaded_file = "none"
    /\ image_score = 0
    /\ log_button = FALSE
    /\ sorted_incidents = <<>>
    /\ now = 0
    /\ pc = "idle"
    /\ ops = 0
    /\ last = Other

\* the same session with the camera off: either it was never started, or a stream
\* ran unattended past the threshold and was stopped, so that its detector has
\* raised the flag and no script run has seen it yet (SpecLive reaches that state
\* from InitLive and covers the detector, frame by frame)
Init ==
    /\ incidents = <<>>
    /\ active_incident_id = NoId
    /\ video_processor = NoDetector
    /\ \/ violation_detected = FALSE /\ sessions = 0
       \/ violation_detected = TRUE /\ sessions = 1
    /\ email_sent_for_last_detection = FALSE
    /\ uploaded_file = "none"
    /\ image_score = 0
    /\ log_button = FALSE
    /\ sorted_incidents = <<>>
    /\ now = 0
    /\ pc = "idle"
    /\ ops = 0
    /\ last = Other

\* ----------------------------------------------------------------- actions

\* webrtc_streamer starts a stream: video_processor_factory=RealTimeDetector
StartStream ==
    /\ video_processor = NoDetector
    /\ sessions < MaxSessions
    /\ video_processor' = NewDetector
    /\ sessions' = sessions + 1
    /\ UNCHANGED <<incidents, active_incident_id, violation_detected,
                   email_sent_for_last_detection, uploaded_file, image_score,
                   log_button, sorted_incidents, now, pc, ops, last>>

\* the stream is stopped: webrtc_ctx.video_processor is None again
StopStream ==
    /\ video_processor # NoDetector
    /\ video_processor' = NoDetector
    /\ UNCHANGED <<incidents, active_incident_id, violation_detected,
                   email_sent_for_last_detection, sessions, uploaded_file,
                   image_score, log_button, sorted_incidents, now, pc, ops, last>>

\* RealTimeDetector.recv on the stream's thread, one frame
Recv ==
    /\ video_processor # NoDetector
    /\ video_processor' = recv(video_processor)
    /\ violation_detected' =
          IF RaisesFlag(video_processor) /\ ~violation_detected
          THEN TRUE ELSE violation_detected
    /\ UNCHANGED <<incidents, active_incident_id, email_sent_for_last_detection,
                   sessions, uploaded_file, image_score, log_button,
                   sorted_incidents, now, pc, ops, last>>

\* main lines 409-420: the live trigger creates, selects and dispatches
MainLiveCreate(id) ==
    /\ pc = "idle"
    /\ LivePending
    /\ now' = now + 1
    /\ \E ok \in BOOLEAN :
          /\ incidents' = Append(incidents,
                Created("Confirmed Live Violence", "Live Camera Feed", LiveScore, id, now', ok))
          /\ last' = Dispatched(id, ok)
    /\ active_incident_id' = id
    /\ email_sent_for_last_detection' = TRUE
    /\ pc' = "clear"
    /\ ops' = ops
    /\ UNCHANGED <<violation_detected, video_processor, sessions, uploaded_file,
                   image_score, log_button, sorted_incidents>>

\* main lines 421-424: the flag is cleared and the script reruns
MainLiveClear ==
    /\ pc = "clear"
    /\ violation_detected' = FALSE
    /\ pc' = "idle"
    /\ UNCHANGED <<incidents, active_incident_id, email_sent_for_last_detection,
                   video_processor, sessions, uploaded_file, image_score,
                   log_button, sorted_incidents, now, ops, last>>

\* what process_uploaded_image leaves on the page for a drawn score
ImageShown(file, s) == IF file = "image" THEN s ELSE 0

\* variant: the threshold test is a strict comparison
ButtonShown_Strict(file, s) == file = "image" /\ s > ImageThreshold

\* variant: the button is rendered outside the threshold branch
ButtonShown_Always(file, s) == file = "image"

ButtonShown(file, s) == file = "image" /\ s >= ImageThreshold

\* a run of main with no widget event: list panel, file panel, sleep, rerun
MainRender(s) ==
    /\ pc = "idle"
    /\ ~LivePending
    /\ sorted_incidents' = incident_list_order(incidents)
    /\ image_score' = ImageShown(uploaded_file, s)
    /\ log_button' = ButtonShown(uploaded_file, s)
    /\ last' = Other
    /\ ops' = ops
    /\ UNCHANGED <<incidents, active_incident_id, violation_detected,
                   email_sent_for_last_detection, video_processor, sessions,
                   uploaded_file, now, pc>>

\* the operator changes the uploaded file; the run it starts renders the file panel
Upload(file, s) ==
    /\ pc = "idle"
    /\ ~LivePending
    /\ file # uploaded_file
    /\ uploaded_file' = file
    /\ sorted_incidents' = incident_list_order(incidents)
    /\ image_score' = ImageShown(file, s)
    /\ log_button' = ButtonShown(file, s)
    /\ last' = Other
    /\ ops' = ops
    /\ UNCHANGED <<incidents, active_incident_id, violation_detected,
                   email_sent_for_last_detection, video_processor, sessions, now, pc>>

\* incident_list_panel: the card of the incident at store position i is pressed
SelectIncident(i) ==
    /\ pc = "idle"
    /\ ~LivePending
    /\ i \in 1..Len(incidents)
    /\ sorted_incidents' = incident_list_order(incidents)
    /\ active_incident_id' = incidents[i].id
    /\ last' = Other
    /\ ops' = ops
    /\ UNCHANGED <<incidents, violation_detected, email_sent_for_last_detection,
                   video_processor, sessions, uploaded_file, image_score,
                   log_button, now, pc>>

\* process_uploaded_image in the run started by pressing "Log Incident and Send Alert"
PressLogImage(s, id) ==
    /\ pc = "idle"
    /\ ~LivePending
    /\ uploaded_file = "image"
    /\ log_button
    /\ Len(incidents) < MaxIncidents
    /\ Len(incidents) + ops < MaxWork
    /\ sorted_incidents' = incident_list_order(incidents)
    /\ image_score' = ImageShown(uploaded_file, s)
    /\ log_button' = ButtonShown(uploaded_file, s)
    /\ IF s >= ImageThreshold
       THEN /\ now' = now + 1
            /\ \E ok \in BOOLEAN :
                  /\ incidents' = Append(incidents,
                        Created("Image Upload Violence", "File: image", s, id, now', ok))
                  /\ last' = Dispatched(id, ok)
            /\ active_incident_id' = id
       ELSE /\ last' = Other
            /\ UNCHANGED <<now, incidents, active_incident_id>>
    /\ ops' = ops
    /\ UNCHANGED <<violation_detected, email_sent_for_last_detection,
                   video_processor, sessions, uploaded_file, pc>>

\* process_uploaded_video in the run started by pressing "Run Full Video Detection Analysis"
PressRunVideo(s, id) ==
    /\ pc = "idle"
    /\ ~LivePending
    /\ uploaded_file = "video"
    /\ Len(incidents) < MaxIncidents
    /\ Len(incidents) + ops < MaxWork
    /\ sorted_incidents' = incident_list_order(incidents)
    /\ IF s >= VideoThreshold
       THEN /\ now' = now + 1
            /\ \E ok \in BOOLEAN :
                  /\ incidents' = Append(incidents,
                        Created("Video Footage Violence", "Video: video", s, id, now', ok))
                  /\ last' = Dispatched(id, ok)
            /\ active_incident_id' = id
       ELSE /\ last' = Other
            /\ UNCHANGED <<now, incidents, active_incident_id>>
    /\ ops' = ops
    /\ UNCHANGED <<violation_detected, email_sent_for_last_detection,
                   video_processor, sessions, uploaded_file, image_score,
                   log_button, pc>>

\* handle_update(incident_id, 'status', value)
HandleUpdate(incident_id, value) ==
    /\ pc = "idle"
    /\ Len(incidents) + ops < MaxWork
    /\ ops' = ops + 1
    /\ incidents' = handle_update(incidents, incident_id, value)
    /\ active_incident_id' = incident_id
    /\ last' = [op |-> "handle_update", id |-> incident_id, value |-> value,
                repeat |-> last.op = "handle_update" /\ last.id = incident_id
                           /\ last.value = value]
    /\ UNCHANGED <<violation_detected, email_sent_for_last_detection,
                   video_processor, sessions, uploaded_file, image_score,
                   log_button, sorted_incidents, now, pc>>

\* send_notification_action(incident_id)
SendNotificationAction(incident_id) ==
    /\ pc = "idle"
    /\ Len(incidents) + ops < MaxWork
    /\ ops' = ops + 1
    /\ incidents' = send_notification_action(incidents, incident_id, now)
    /\ last' = [op |-> "send_notification_action", id |-> incident_id,
                value |-> "None", repeat |-> FALSE]
    /\ UNCHANGED <<active_incident_id, violation_detected,
                   email_sent_for_last_detection, video_processor, sessions,
                   uploaded_file, image_score, log_button, sorted_incidents, now, pc>>

\* ---------------------------------------------------------- specifications

\* the engine: every creation path and the operator handlers, camera off
Next ==
    \/ \E id \in IdSpace : MainLiveCreate(id)
    \/ MainLiveClear
    \/ \E s \in ImageScores : MainRender(s)
    \/ \E file \in {"none", "image", "video"}, s \in ImageScores : Upload(file, s)
    \/ \E i \in 1..MaxIncidents : SelectIncident(i)
    \/ \E s \in ImageScores, id \in IdSpace : PressLogImage(s, id)
    \/ \E s \in VideoScores, id \in IdSpace : PressRunVideo(s, id)
    \/ \E id \in IdSpace, value \in Statuses : HandleUpdate(id, value)
    \/ \E id \in IdSpace : SendNotificationAction(id)

Spec == Init /\ [][Next]_vars

\* the live path from a fresh session: stream sessions, polls, reruns, operator handlers
NextLive ==
    \/ StartStream
    \/ StopStream
    \/ Recv
    \/ \E id \in IdSpace : MainLiveCreate(id)
    \/ MainLiveClear
    \/ \E s \in ImageScores : MainRender(s)
    \/ \E i \in 1..MaxIncidents : SelectIncident(i)
    \/ \E id \in IdSpace, value \in Statuses : HandleUpdate(id, value)
    \/ \E id \in IdSpace : SendNotificationAction(id)

SpecLive == InitLive /\ [][NextLive]_vars

\* the two threads of the live path, and the operator steps that set the selection
NextFair ==
    \/ StartStream
    \/ StopStream
    \/ Recv
    \/ \E id \in IdSpace : MainLiveCreate(id)
    \/ MainLiveClear
    \/ \E s \in ImageScores : MainRender(s)
    \/ \E i \in 1..MaxIncidents : SelectIncident(i)
    \/ \E id \in IdSpace, value \in Statuses : HandleUpdate(id, value)

\* the live path with its two threads scheduled fairly: the stream delivers frames
\* to recv while it runs, and main reruns for ever (time.sleep(1); st.rerun())
SpecLiveFair ==
    /\ InitLive
    /\ [][NextFair]_vars
    /\ WF_vars(Recv)
    /\ WF_vars(\E id \in IdSpace : MainLiveCreate(id))
    /\ WF_vars(MainLiveClear)

\* the image panel over every draw of random.randint(70, 100): uploads, reruns and
\* the press that logs the first incident of the session
NextImage ==
    \/ \E s \in ImageLow..ImageHigh : MainRender(s)
    \/ \E file \in {"none", "image", "video"}, s \in ImageLow..ImageHigh : Upload(file, s)
    \/ \E s \in ImageLow..ImageHigh, id \in IdSpace :
          Len(incidents) = 0 /\ PressLogImage(s, id)

SpecImage == InitLive /\ [][NextImage]_vars

\* ------------------------------------------------------------------ claims

Positions == 1..Len(incidents)
LiveIncidents == {i \in Positions : incidents[i].type = "Confirmed Live Violence"}
Known(id) == FindIncident(incidents, id) # 0

\* C1 (at most one per edge): the store holds exactly one live incident once the
\* live trigger has been processed and none before; no later poll, rerun or
\* stream session adds a second one.
C1_AtMostOnePerEdge ==
    Cardinality(LiveIncidents) = IF email_sent_for_last_detection THEN 1 ELSE 0

\* the ramp has ended long after the crossing and the trigger was processed once
C1_Witness ==
    /\ video_processor.frame_counter = FrameCap
    /\ video_processor.detection_triggered
    /\ pc = "idle"
    /\ ~violation_detected
    /\ Cardinality(LiveIncidents) = 1

\* C2 (counter consistency): every incident has notifications_sent equal to the
\* length of its notification_log.
C2_CounterConsistency ==
    \A i \in Positions :
        incidents[i].notifications_sent = Len(incidents[i].notification_log)

\* C3 (first-recipient rule): the first log entry of every incident names
\* Admin/Security and every later entry Parents/Counselors.
C3_FirstRecipientRule ==
    \A i \in Positions :
        \A k \in 1..Len(incidents[i].notification_log) :
            incidents[i].notification_log[k].recipient =
                IF k = 1 THEN "Admin/Security" ELSE "Parents/Counselors"

\* the order the claim asks of a displayed list: New before non-New, and newest
\* first inside each group
NewFirst(order, incs) ==
    \A p, q \in 1..Len(order) :
        p < q =>
            /\ incs[order[p]].status = "New" \/ incs[order[q]].status # "New"
            /\ (incs[order[p]].status = "New") = (incs[order[q]].status = "New")
                  => incs[order[p]].timestamp >= incs[order[q]].timestamp

\* C4 (display order): the list a run of the list panel computes places New
\* incidents before the others, each group newest first.
C4_DisplayOrder ==
    [][(\E s \in ImageScores : MainRender(s)) => NewFirst(sorted_incidents', incidents')]_vars

\* C5 (latch reset per session): when a new RealTimeDetector is created the
\* live-trigger latch is reset.
C5_LatchResetPerSession ==
    [][StartStream => ~email_sent_for_last_detection']_vars

\* C6 (end-to-end live scenario): once the live trigger has been processed, and
\* with no operator action, the store holds exactly one incident, of the live
\* type, location and score, New, with notifications_sent >= 1.
C6_EndToEndLive ==
    (email_sent_for_last_detection /\ ops = 0) =>
        /\ Len(incidents) = 1
        /\ incidents[1].type = "Confirmed Live Violence"
        /\ incidents[1].location = "Live Camera Feed"
        /\ incidents[1].deescalation_score = LiveScore
        /\ incidents[1].status = "New"
        /\ incidents[1].notifications_sent >= 1

\* C7 (unknown-id safety): a handle_update or send_notification_action step whose
\* id matches no incident leaves the incident store as it was.
C7_UnknownIdSafety ==
    [][\A id \in IdSpace :
          (/\ ~Known(id)
           /\ \/ \E value \in Statuses : HandleUpdate(id, value)
              \/ SendNotificationAction(id))
          => incidents' = incidents]_vars

\* both handlers have run with an id that is in no incident of a non-empty store
C7_Witness ==
    /\ Len(incidents) > 0
    /\ last.op = "send_notification_action"
    /\ ~Known(last.id)
    /\ active_incident_id # NoId
    /\ ~Known(active_incident_id)

\* C8 (status idempotence): repeating handle_update(id, 'status', s) right after
\* the same call on an existing incident changes no incident and not the selection.
C8_StatusIdempotence ==
    [][(/\ last.op = "handle_update"
        /\ Known(last.id)
        /\ HandleUpdate(last.id, last.value))
       => /\ incidents' = incidents
          /\ active_incident_id' = active_incident_id]_vars

\* the same update was applied twice in a row to an incident it had changed
C8_Witness ==
    /\ last.op = "handle_update"
    /\ last.repeat
    /\ Known(last.id)
    /\ last.value # "New"
    /\ Len(incidents) = MaxIncidents

\* C9 (id uniqueness): no two incidents of the store have the same id.
C9_IdUniqueness ==
    \A i, j \in Positions : i # j => incidents[i].id # incidents[j].id

FileTypes == {"Image Upload Violence", "Video Footage Violence"}
Appended(type) ==
    /\ Len(incidents') = Len(incidents) + 1
    /\ incidents'[Len(incidents')].type = type

\* a triggered analysis result is on the page with its confirmation control
ConfirmationOffered == log_button /\ image_score >= ImageThreshold

\* C10 (one-shot creation is gated), as claimed: an image or video incident is
\* appended only by a confirmation made after a triggered result was produced.
C10_GatedCreation ==
    [][(\E type \in FileTypes : Appended(type)) => ConfirmationOffered]_vars

\* C10 as amended: an image incident is appended only by a press of the control
\* a triggered result offered; a video incident is appended by the analysis run
\* itself; a run without a button press appends nothing.
C10_GatedImageCreation ==
    [][/\ Appended("Image Upload Violence") =>
            ConfirmationOffered /\ \E s \in ImageScores, id \in IdSpace : PressLogImage(s, id)
       /\ Appended("Video Footage Violence") =>
            ~ConfirmationOffered /\ \E s \in VideoScores, id \in IdSpace : PressRunVideo(s, id)
       /\ ((\E s \in ImageScores : MainRender(s))
            \/ (\E file \in {"none", "image", "video"}, s \in ImageScores : Upload(file, s)))
            => incidents' = incidents]_vars

\* an image incident and a video incident have both been created
C10_Witness ==
    /\ \E i \in Positions : incidents[i].type = "Image Upload Violence"
    /\ \E i \in Positions : incidents[i].type = "Video Footage Violence"

ImageIncidents == {i \in Positions : incidents[i].type = "Image Upload Violence"}

\* C11 (image threshold boundary): for every image score in 70..100 the creation
\* control is on the page iff the score is >= 80; a run that scores below 80 appends
\* and dispatches nothing, the control is pressed only where a score >= 80 offered
\* it, and every image incident carries a score >= 80.
C11_ThresholdBoundary ==
    /\ [](uploaded_file = "image" =>
            /\ image_score \in ImageLow..ImageHigh
            /\ (log_button <=> image_score >= ImageThreshold))
    /\ [](\A i \in ImageIncidents : incidents[i].deescalation_score >= ImageThreshold)
    /\ [][/\ (uploaded_file' = "image" /\ image_score' < ImageThreshold)
              => incidents' = incidents
          /\ (\E s \in ImageLow..ImageHigh, id \in IdSpace : PressLogImage(s, id))
              => (log_button /\ image_score >= ImageThreshold)]_vars

\* a score of exactly 80 has created an incident and the next run scored 79
C11_Witness ==
    /\ uploaded_file = "image"
    /\ image_score = ImageThreshold - 1
    /\ ~log_button
    /\ \E i \in ImageIncidents : incidents[i].deescalation_score = ImageThreshold

\* C12 (dispatcher logs unconditionally and never fails): every step that calls
\* send_alert_email, with the send succeeding or failing, leaves exactly one
\* "Email Alert System" entry in the log of the incident it was called on, changes
\* no other incident, and the caller runs on (the live path sets its latch).
C12_DispatcherLogsUnconditionally ==
    [][(incidents' # incidents /\ last'.op \notin {"handle_update", "send_notification_action"}) =>
          /\ last'.op = "send_alert_email"
          /\ last'.value \in {"st.success", "st.error"}
          /\ Len(incidents') = Len(incidents) + 1
          /\ \A i \in Positions : incidents'[i] = incidents[i]
          /\ LET new == incidents'[Len(incidents')]
             IN  /\ new.id = last'.id
                 /\ new.notification_log =
                       <<[time |-> now', recipient |-> "Email Alert System"]>>
                 /\ active_incident_id' = new.id
                 /\ (new.type = "Confirmed Live Violence")
                       => (email_sent_for_last_detection' /\ pc' = "clear")]_vars

\* the send failed for the second incident of the store and the entry is in its log
C12_Witness ==
    /\ last.op = "send_alert_email"
    /\ last.value = "st.error"
    /\ Len(incidents) = MaxIncidents
    /\ Len(incidents[Len(incidents)].notification_log) = 1

\* C13 (status domain and ownership): an incident is New when it is appended; every
\* status is one of the four status_options; the status of an incident changes only
\* in a handle_update step for that incident's id; and such a step, which no
\* present status blocks, leaves the status it was given.
C13_StatusDomainAndOwnership ==
    /\ [](\A i \in Positions : incidents[i].status \in Statuses)
    /\ [](\A i \in Positions, value \in Statuses :
            (pc = "idle" /\ Len(incidents) + ops < MaxWork)
               => ENABLED HandleUpdate(incidents[i].id, value))
    /\ [][/\ \A i \in 1..Len(incidents') :
                i > Len(incidents) => incidents'[i].status = "New"
          /\ \A i \in Positions :
                incidents'[i].status # incidents[i].status
                   => \E value \in Statuses : HandleUpdate(incidents[i].id, value)
          /\ \A id \in IdSpace, value \in Statuses :
                (Known(id) /\ HandleUpdate(id, value))
                   => incidents'[FindIncident(incidents, id)].status = value]_vars

\* one incident of a full store is Closed and an update has just set an incident to New
C13_Witness ==
    /\ Len(incidents) = MaxIncidents
    /\ \E i \in Positions : incidents[i].status = "Closed"
    /\ last.op = "handle_update"
    /\ last.value = "New"
    /\ Known(last.id)
    /\ incidents[FindIncident(incidents, last.id)].status = "New"

\* the entries of a log that send_notification_action wrote
ManualEntries(log) == SelectSeq(log, LAMBDA e : e.recipient # "Email Alert System")

\* C14 (manual notify step): a send_notification_action step on an existing incident
\* adds 1 to its notifications_sent and one entry to its notification_log, naming
\* Admin/Security iff the counter is 1 after the increment and Parents/Counselors
\* otherwise; so the k-th manual entry of a log names Admin/Security iff k = 1.
C14_ManualNotifyStep ==
    /\ [](\A i \in Positions :
            LET manual == ManualEntries(incidents[i].notification_log)
            IN  \A k \in 1..Len(manual) :
                   manual[k].recipient =
                      IF k = 1 THEN "Admin/Security" ELSE "Parents/Counselors")
    /\ [][\A id \in IdSpace :
            (Known(id) /\ SendNotificationAction(id)) =>
               LET i == FindIncident(incidents, id)
                   old == incidents[i]
                   new == incidents'[i]
                   n == Len(old.notification_log)
               IN  /\ new.notifications_sent = old.notifications_sent + 1
                   /\ Len(new.notification_log) = n + 1
                   /\ SubSeq(new.notification_log, 1, n) = old.notification_log
                   /\ new.notification_log[n + 1].recipient =
                         IF new.notifications_sent = 1
                         THEN "Admin/Security" ELSE "Parents/Counselors"]_vars

\* the second manual notification of an incident has just been logged
C14_Witness ==
    /\ last.op = "send_notification_action"
    /\ Known(last.id)
    /\ LET x == incidents[FindIncident(incidents, last.id)]
       IN  /\ x.notifications_sent = 2
           /\ Len(ManualEntries(x.notification_log)) = 2

\* C15 (unknown id is a complete no-op): the active incident id is empty or the id
\* of an incident of the store.
C15_ActiveIsKnown ==
    active_incident_id = NoId \/ Known(active_incident_id)

\* C16 (image score computed once per asset): while a triggered result stays on the
\* page its score does not change from run to run, and a press of the offered
\* control appends an image incident that carries the displayed score.
C16_ScoreComputedOnce ==
    [][/\ (log_button /\ uploaded_file = "image" /\ uploaded_file' = "image")
             => image_score' = image_score
       /\ (\E s \in ImageLow..ImageHigh, id \in IdSpace : PressLogImage(s, id))
             => /\ Appended("Image Upload Violence")
                /\ incidents'[Len(incidents')].deescalation_score = image_score]_vars

Streaming == video_processor # NoDetector

\* C17 (stream signal shape): a detector's score starts at 0, stays within 0..100,
\* never decreases, rises by at most 1 per poll and is held once the counter has
\* stopped; detection_triggered is false while the score is below 90, true from the
\* first poll whose score is >= 90, and true on every later poll.
C17_StreamSignalShape ==
    /\ [](Streaming =>
            /\ video_processor.violence_score \in 0..ScoreCap
            /\ video_processor.frame_counter \in 0..FrameCap
            /\ video_processor.detection_triggered
                  <=> video_processor.violence_score >= LiveThreshold)
    /\ [][StartStream =>
            /\ video_processor'.violence_score = 0
            /\ ~video_processor'.detection_triggered]_vars
    /\ [][Recv =>
            LET d == video_processor
                e == video_processor'
            IN  /\ e.violence_score >= d.violence_score
                /\ e.violence_score <= d.violence_score + 1
                /\ d.frame_counter < FrameCap
                      => (e.frame_counter = d.frame_counter + 1
                            /\ e.violence_score = d.frame_counter)
                /\ d.frame_counter = FrameCap => e = d
                /\ d.detection_triggered => e.detection_triggered
                /\ e.detection_triggered
                      <=> (d.detection_triggered \/ e.violence_score >= LiveThreshold)]_vars

\* the last detector the bound allows has run its ramp to the end
C17_Witness ==
    /\ sessions = MaxSessions
    /\ Streaming
    /\ video_processor.frame_counter = FrameCap
    /\ video_processor.violence_score = FrameCap - 1
    /\ video_processor.detection_triggered

SameIdentity(old, new) ==
    /\ new.id = old.id
    /\ new.type = old.type
    /\ new.location = old.location
    /\ new.timestamp = old.timestamp
    /\ new.deescalation_score = old.deescalation_score
    /\ new.description = old.description
    /\ new.wellness_required = old.wellness_required

\* C18 (frame of operator actions): a handle_update or send_notification_action
\* step keeps the store's length and order, changes no field of any other incident
\* and none of id, type, location, timestamp, score, description and wellness count
\* of its own; handle_update leaves notifications_sent and notification_log as
\* they were, send_notification_action leaves the status as it was.
C18_OperatorFrame ==
    [][\A id \in IdSpace :
          LET x == FindIncident(incidents, id)
              SetStatus == \E value \in Statuses : HandleUpdate(id, value)
              Notify == SendNotificationAction(id)
          IN  (SetStatus \/ Notify) =>
                 /\ Len(incidents') = Len(incidents)
                 /\ \A i \in Positions :
                       /\ SameIdentity(incidents[i], incidents'[i])
                       /\ i # x => incidents'[i] = incidents[i]
                 /\ (SetStatus /\ x # 0) =>
                       /\ incidents'[x].notifications_sent = incidents[x].notifications_sent
                       /\ incidents'[x].notification_log = incidents[x].notification_log
                 /\ (Notify /\ x # 0) =>
                       incidents'[x].status = incidents[x].status]_vars

\* in a full store one incident has been given a status and the other, still New,
\* has just been notified about
C18_Witness ==
    /\ Len(incidents) = MaxIncidents
    /\ last.op = "send_notification_action"
    /\ Known(last.id)
    /\ LET x == FindIncident(incidents, last.id)
       IN  /\ incidents[x].status = "New"
           /\ incidents[x].notifications_sent = 1
           /\ \E i \in Positions :
                 i # x /\ incidents[i].status = "Resolved"
                       /\ incidents[i].notifications_sent = 0

\* C19 (log/counter relation): the notification_log of every incident has one
\* entry more than notifications_sent, and its first entry names the
\* "Email Alert System".
C19_LogCounterRelation ==
    \A i \in Positions :
        /\ Len(incidents[i].notification_log) = incidents[i].notifications_sent + 1
        /\ incidents[i].notification_log[1].recipient = "Email Alert System"

\* incidents of two creation paths, one of them notified about twice
C19_Witness ==
    /\ \E i \in Positions :
          incidents[i].type = "Confirmed Live Violence" /\ incidents[i].notifications_sent = 2
    /\ \E i \in Positions :
          incidents[i].type = "Video Footage Violence" /\ incidents[i].notifications_sent = 0

\* the first detector of the session has reached the threshold
FirstTriggered ==
    sessions = 1 /\ Streaming /\ video_processor.violence_score >= LiveThreshold

\* a live incident is in the store and is the active one
LiveActive == \E i \in LiveIncidents : active_incident_id = incidents[i].id

\* C20 (liveness of the first live trigger): with recv and the reruns of main
\* scheduled fairly, the flag the first detector raises at score 90 stays up until
\* main has consumed it, and a live incident is eventually appended and made the
\* active incident.
C20_FirstTriggerLiveness ==
    /\ [](FirstTriggered => (violation_detected \/ email_sent_for_last_detection))
    /\ [][(violation_detected /\ ~violation_detected')
            => (email_sent_for_last_detection /\ LiveIncidents # {})]_vars
    /\ (FirstTriggered /\ ~email_sent_for_last_detection) ~> LiveActive

\* the first detector's trigger was consumed while its stream was still running
C20_Witness ==
    /\ FirstTriggered
    /\ email_sent_for_last_detection
    /\ ~violation_detected
    /\ pc = "idle"
    /\ LiveActive

====
